---- MODULE Spec2Model ----
(***************************************************************************)
(* Model of the table subsystem of carbon-components-angular:              *)
(*   - the Table view/controller (src/src/table/table.component.ts), and   *)
(*   - the TableModel it displays.  The TableModel class itself            *)
(*     (table.module) is not part of the available sources; its operations *)
(*     are modelled from the specification's contract (spec.md 3, 4.1, 6). *)
(* and of the services and views beside it, each with its own variables    *)
(* and its own specification:                                              *)
(*   - the page fetches of the table's application (selectPage),           *)
(*   - DialogService (src/unnamed/part_002),                               *)
(*   - IconService (src/src/icon/icon.service.ts),                         *)
(*   - DropdownList (src/src/notification/notification.component.ts).      *)
(*                                                                         *)
(* Arrays are modelled as sequences; a JavaScript index i (0-based) is     *)
(* position i + 1 of the sequence.                                         *)
(*                                                                         *)
(* lastOp is a history variable: it names the last operation when that     *)
(* operation is the one a specification observes (observed), so that the   *)
(* properties of one operation can be stated on the steps it takes.        *)
(***************************************************************************)
EXTENDS Integers, Sequences, FiniteSets, TLC

\* ------------------------------------------------------------------ bounds
\* largest number of rows of a page of data
MaxRows == 2
\* number of columns of the table
NCols == 2
\* largest number of page requests the application makes
MaxRequests == 2
\* largest number of dialog components in the view containers
MaxComponents == 2
\* largest number of consecutive toggles of a dialog
MaxToggles == 3
\* largest number of doSpriteRequest calls for one sprite name
MaxSpriteRequests == 2
\* largest number of items of a dropdown list
MaxItems == 2
\* largest absolute value of an argument of range
MaxRange == 3
\* largest distance the table body can be scrolled
MaxScroll == 2
\* largest number of models the table is given, the first included
MaxModels == 2
\* the data sets the application can supply for each length
Variants == {1}

VARIABLES
    header,                         \* model.header: sequence of header items
    data,                           \* model.data: sequence of rows (sequences of cells)
    rowsSelected,                   \* model.rowsSelected
    rowsExpanded,                   \* model.rowsExpanded
    rowsContext,                    \* model.rowsContext
    selectAllCheckbox,              \* Table.selectAllCheckbox
    selectAllCheckboxSomeSelected,  \* Table.selectAllCheckboxSomeSelected
    showSelectionColumn,            \* Table.showSelectionColumn (@Input)
    enableSingleSelect,             \* Table.enableSingleSelect (@Input)
    observed,                       \* the operation whose runs are recorded in lastOp
    lastOp,                         \* the last operation, when it is the observed one
    received,                       \* mutations and notifications of the last model-mutating handler
    sortEmitted,                    \* the value last emitted by Table.sort (-1: none yet)
    currentPage,                    \* model.currentPage
    requests,                       \* the pages asked of the service, in the order of the calls
    pending,                        \* the requests (positions in requests) not yet answered
    completions,                    \* the requests whose data arrived, in the order of arrival
    isOpen,                         \* DialogService.isOpen
    dialogRef,                      \* DialogService.dialogRef (0: undefined or null)
    componentFactory,               \* DialogService.componentFactory is set
    dialogConfig,                   \* dialogRef.instance.dialogConfig (its appendToBody)
    subscribedView,                 \* the view captured by the onClose subscription
    placeholder,                    \* dialogPlaceholderService.viewContainerRef is set
    views,                          \* the components of each view container, by position
    isClosedLast,                   \* the value last emitted by DialogService.isClosed
    toggles,                        \* consecutive toggles since the dialog was closed (-1: not counting)
    dialogOp,                       \* the last operation on the dialog service
    cacheLevel,                     \* IconService.cacheLevel (static)
    spriteCache,                    \* IconService.spriteCache (static): sprite name -> observable (0: no entry)
    spriteRequests,                 \* the doSpriteRequest calls made for each sprite name
    cachedRequests,                 \* those of them made with cacheLevel "simple"
    lastSprite,                     \* the last getSprite call and what it returned
    items,                          \* DropdownList.items
    displayItems,                   \* DropdownList.displayItems
    copies,                         \* the generation of the objects in items
    listType,                       \* DropdownList.type (@Input)
    listIndex,                      \* DropdownList.index
    listSelect,                     \* the value last emitted by DropdownList.select
    rangeCall,                      \* the last call of range and what came of it
    sprites,                        \* the Sprite component of each sprite name: how far its loading is
    promises,                       \* the promise getIcon returned for each icon
    logged,                         \* the sprite names whose failure was written to the console
    runningRequests,                \* IconService.runningRequests (static)
    isEnd,                          \* model.isEnd
    scrollLoadDistance,             \* Table.scrollLoadDistance (@Input)
    lastScroll,                     \* the last scroll event and what the table did with it
    tableEvents,                    \* the selection events the last handler of the table emitted
    moveCall,                       \* the arguments of the last model.moveColumn call of columnDrop
    held,                           \* the model the table holds (models are numbered as they are made)
    oldRows,                        \* rowsSelected of the model the table held before
    closedEmitters,                 \* the models whose emitters were unsubscribed
    raised                          \* the error the last operation on a model raised

\* the sort output of the table
sortVars == <<sortEmitted>>

\* the page cursor and the application's page fetches (selectPage)
fetchVars == <<currentPage, requests, pending, completions>>

\* the dialog service
dialogVars == <<isOpen, dialogRef, componentFactory, dialogConfig, subscribedView,
                placeholder, views, isClosedLast, toggles, dialogOp>>

\* the icon service
iconVars == <<cacheLevel, spriteCache, spriteRequests, cachedRequests, lastSprite,
              runningRequests>>

\* the dropdown list
listVars == <<items, displayItems, copies, listType, listIndex, listSelect>>

\* the calls of range
rangeVars == <<rangeCall>>

\* the Sprite components and the promises of getIcon
loadVars == <<sprites, promises, logged>>

\* the scrolling of the table body
scrollVars == <<isEnd, scrollLoadDistance, lastScroll>>

\* the output events of the table and its calls of moveColumn
eventVars == <<tableEvents, moveCall>>

\* the models the table is given
swapVars == <<held, oldRows, closedEmitters, raised>>

\* the state around the table that the services and the list leave alone too
around == <<rangeVars, loadVars, scrollVars, swapVars>>

\* the state outside the table's model and checkboxes
elsewhereButEvents == <<sortVars, fetchVars, dialogVars, iconVars, listVars, around>>

elsewhere == <<elsewhereButEvents, eventVars>>

vars == <<header, data, rowsSelected, rowsExpanded, rowsContext,
          selectAllCheckbox, selectAllCheckboxSomeSelected,
          showSelectionColumn, enableSingleSelect, observed, lastOp,
          received, elsewhere>>

\* what no operation of the table changes
inputs == <<showSelectionColumn, enableSingleSelect, observed>>

\* the table: its model and its checkboxes
tableVars == <<header, data, rowsSelected, rowsExpanded, rowsContext,
               selectAllCheckbox, selectAllCheckboxSomeSelected,
               inputs, lastOp, received>>

\* ------------------------------------------------------------ strings
\* Strings are sequences of one-character strings so that toLowerCase and
\* indexOf can be computed.
lowerChar(c) == IF c = "A" THEN "a" ELSE IF c = "B" THEN "b" ELSE c

toLowerCase(s) == [k \in 1..Len(s) |-> lowerChar(s[k])]

\* s.indexOf(t) >= 0
indexOfGE0(s, t) ==
    \E k \in 0..(Len(s) - Len(t)) : SubSeq(s, k + 1, k + Len(t)) = t

\* the cell payloads the application's data sets are made of
Payload(k) ==
    IF k = 0 THEN <<"a", "b">> ELSE IF k = 1 THEN <<"A">> ELSE <<"b">>

\* the terms a user can type into a column filter (the empty one = no filter)
FilterTerms == { <<>>, <<"A">> }

\* ------------------------------------------------------------ data sets
\* A cell (TableItem): the column it was created for, its data, and the
\* children sequence shown when the row is expanded (empty: none).  Each
\* child owns its own expansion flag.
Cell(r, c, v) ==
    [col          |-> c,
     data         |-> Payload((r + c + v) % 3),
     expandedData |-> IF c = 1 /\ (r + v) % 2 = 0
                      THEN << [expanded |-> (v = 1), children |-> <<>>] >>
                      ELSE <<>>]

\* the n-row page number v as the application builds it (selectPage)
TableData(n, v) == [r \in 1..n |-> [c \in 1..NCols |-> Cell(r, c, v)]]

\* a header item: not sorted until the application marks it
NewHeaderItem(c) ==
    [col |-> c, filterData |-> <<>>, sorted |-> FALSE, descending |-> FALSE]

\* ------------------------------------------------------------ TableModel
\* (modelled from the specification: spec.md 3, 4.1 and 6)

\* the data setter re-derives a per-row array of the new length, cleared
freshRowArray(n, v) == [k \in 1..n |-> v]

selectedRowsCount(rs) == Cardinality({k \in 1..Len(rs) : rs[k]})

InRange(index, n) == 0 <= index /\ index < n

\* mutant: the other rows are cleared by the write
selectRowClearsOthers(rs, index, value) ==
    IF InRange(index, Len(rs))
    THEN [k \in 1..Len(rs) |-> IF k = index + 1 THEN value ELSE FALSE]
    ELSE rs

\* mutant: a plain array write, which grows the array past its end
selectRowGrows(rs, index, value) ==
    IF InRange(index, Len(rs)) THEN [rs EXCEPT ![index + 1] = value]
    ELSE IF index >= Len(rs)
         THEN [k \in 1..(index + 1) |-> IF k <= Len(rs) THEN rs[k] ELSE (k = index + 1 /\ value)]
         ELSE rs

\* selectRow(index, value): sets rowsSelected[index]; a no-op out of range
selectRow(rs, index, value) ==
    IF InRange(index, Len(rs)) THEN [rs EXCEPT ![index + 1] = value] ELSE rs

\* selectAll(value): sets every entry of rowsSelected in one pass
selectAll(rs, value) == [k \in 1..Len(rs) |-> value]

\* mutant: expanding a row collapses every other row
expandRowAccordion(re, index, value) ==
    IF InRange(index, Len(re))
    THEN [k \in 1..Len(re) |-> IF k = index + 1 THEN value ELSE (re[k] /\ ~value)]
    ELSE re

\* expandRow(index, value): sets rowsExpanded[index]; a no-op out of range
expandRow(re, index, value) ==
    IF InRange(index, Len(re)) THEN [re EXCEPT ![index + 1] = value] ELSE re

\* the index move of moveColumn on one array: remove at from, re-insert at to
moveItem(s, from, to) ==
    LET item    == s[from + 1]
        removed == SubSeq(s, 1, from) \o SubSeq(s, from + 2, Len(s))
    IN  SubSeq(removed, 1, to) \o <<item>> \o SubSeq(removed, to + 1, Len(removed))

\* moveColumn(from, to) on the header; a no-op out of range
moveColumnHeader(h, from, to) ==
    IF InRange(from, Len(h)) /\ InRange(to, Len(h)) THEN moveItem(h, from, to) ELSE h

\* mutant: only the first row's cells follow the header
moveColumnDataFirstRow(h, d, from, to) ==
    IF InRange(from, Len(h)) /\ InRange(to, Len(h))
    THEN [r \in 1..Len(d) |-> IF r = 1 THEN moveItem(d[r], from, to) ELSE d[r]]
    ELSE d

\* moveColumn(from, to) on every row of data; a no-op out of range
moveColumnData(h, d, from, to) ==
    IF InRange(from, Len(h)) /\ InRange(to, Len(h))
    THEN [r \in 1..Len(d) |-> moveItem(d[r], from, to)]
    ELSE d

\* FilterableHeaderItem.filterCount: 1 when a filter term is set, else 0
filterCount(item) == IF Len(item.filterData) > 0 THEN 1 ELSE 0

\* mutant: the cell's data is compared without toLowerCase
filterCaseSensitive(item, cell) ==
    IF indexOfGE0(cell.data, toLowerCase(item.filterData))
    THEN FALSE
    ELSE TRUE

\* FilterableHeaderItem.filter(item): FALSE when the cell's data contains
\* the filter term (case-insensitively), TRUE when the cell is filtered out
filter(item, cell) ==
    IF indexOfGE0(toLowerCase(cell.data), toLowerCase(item.filterData))
    THEN FALSE
    ELSE TRUE

\* isRowFiltered(index): the row is hidden when some column's filter
\* rejects the row's cell in that column; FALSE out of range
isRowFiltered(h, d, index) ==
    IF InRange(index, Len(d))
    THEN \E j \in 1..Len(h) : j <= Len(d[index + 1]) /\ filter(h[j], d[index + 1][j])
    ELSE FALSE

\* mutant: only the row's first cell is looked at
isRowExpandableFirstCell(d, index) ==
    IF InRange(index, Len(d))
    THEN Len(d[index + 1]) > 0 /\ Len(d[index + 1][1].expandedData) > 0
    ELSE FALSE

\* isRowExpandable(index): the row has a non-empty children sequence
isRowExpandable(d, index) ==
    IF InRange(index, Len(d))
    THEN \E j \in 1..Len(d[index + 1]) : Len(d[index + 1][j].expandedData) > 0
    ELSE FALSE

hasExpandableRows(d) == \E i \in 0..(Len(d) - 1) : isRowExpandable(d, i)

\* <tr *ngIf="!model.isRowFiltered(i)">: the rows the table renders
rowRendered(h, d, index) == ~isRowFiltered(h, d, index)

\* ------------------------------------------------------------ Table
\* the header checkbox as a pair
CheckboxState == [all |-> selectAllCheckbox, some |-> selectAllCheckboxSomeSelected]

updateSelectAllCheckbox(rs, d, cb) ==
    LET count == selectedRowsCount(rs) IN
    IF count <= 0
    THEN [all |-> FALSE, some |-> FALSE]
    ELSE IF count < Len(d)
         THEN [cb EXCEPT !.some = TRUE]
         ELSE cb

\* the state a mutation leaves behind, as a subscriber can read it
Mutated(rs, d) == [rs |-> rs, rows |-> Len(d)]

\* mutant: the notifications are delivered after the handler that mutated
\* the model has returned, and read the state it left
deliverDeferred(ms) ==
    [k \in 1..(2 * Len(ms)) |->
        IF k <= Len(ms)
        THEN [ev |-> "mutation", n |-> k, state |-> ms[k]]
        ELSE [ev |-> "notification", n |-> k - Len(ms), state |-> ms[Len(ms)]]]

\* the record of a handler that made the mutations ms (the states they
\* left): each change notification is emitted synchronously, so the
\* subscriber runs, and reads the model, before the next mutation starts
deliver(ms) ==
    [k \in 1..(2 * Len(ms)) |->
        IF k % 2 = 1
        THEN [ev |-> "mutation", n |-> (k + 1) \div 2, state |-> ms[(k + 1) \div 2]]
        ELSE [ev |-> "notification", n |-> k \div 2, state |-> ms[k \div 2]]]

\* model.selectRow(index, value) followed by the rowsSelectedChange
\* notification, which the Table handles with updateSelectAllCheckbox
\* (subscription made in the model setter); ms: the mutations made
selectRowNotify(rs, d, cb, index, value) ==
    LET rs2 == selectRow(rs, index, value)
    IN  [rs |-> rs2,
         cb |-> IF InRange(index, Len(rs)) THEN updateSelectAllCheckbox(rs2, d, cb) ELSE cb,
         ms |-> IF InRange(index, Len(rs)) THEN << Mutated(rs2, d) >> ELSE <<>>]

\* this.model.rowsSelected.forEach((element, index) => selectRow(index, false))
RECURSIVE deselectEach(_, _, _, _)
deselectEach(rs, d, cb, k) ==
    IF k >= Len(rs)
    THEN [rs |-> rs, cb |-> cb, ms |-> <<>>]
    ELSE LET r    == selectRowNotify(rs, d, cb, k, FALSE)
             rest == deselectEach(r.rs, d, r.cb, k + 1)
         IN  [rest EXCEPT !.ms = r.ms \o rest.ms]

\* mutant: a row click toggles the row and leaves the other rows selected
onRowSelectToggles(rs, d, cb, single, index) ==
    IF single
    THEN selectRowNotify(rs, d, cb, index, ~rs[index + 1])
    ELSE [rs |-> rs, cb |-> cb, ms |-> <<>>]

\* onRowSelect(index); single: !showSelectionColumn && enableSingleSelect
onRowSelect(rs, d, cb, single, index) ==
    IF single
    THEN LET r    == deselectEach(rs, d, cb, 0)
             last == selectRowNotify(r.rs, d, r.cb, index, ~r.rs[index + 1])
         IN  [last EXCEPT !.ms = r.ms \o last.ms]
    ELSE [rs |-> rs, cb |-> cb, ms |-> <<>>]

\* mutant: the loop runs once too often (i <= length) and grows the array
setEveryRowOneMore(rs, value) == [k \in 1..(Len(rs) + 1) |-> value]

\* mutant: the loop starts at i = 1 and misses the first row
setEveryRowFromOne(rs, value) == [k \in 1..Len(rs) |-> IF k = 1 THEN rs[k] ELSE value]

\* the loop of onSelectAllCheckboxChange over rowsSelected
setEveryRow(rs, value) == [k \in 1..Len(rs) |-> value]

\* an output event of the table; index is -1 for the events without one
TableEvent(name, index) == [name |-> name, index |-> index]

\* mutant: the event follows the checked state alone
selectAllEventByChecked(cb) ==
    IF cb.all THEN TableEvent("selectAll", -1) ELSE TableEvent("deselectAll", -1)

\* the event onSelectAllCheckboxChange emits
selectAllEvent(cb) ==
    IF cb.some THEN TableEvent("deselectAll", -1)
    ELSE IF cb.all THEN TableEvent("selectAll", -1)
    ELSE TableEvent("deselectAll", -1)

\* onSelectAllCheckboxChange, with cb.all already written by ngModel
onSelectAllCheckboxChange(rs, cb) ==
    LET all == IF cb.some THEN FALSE ELSE cb.all
    IN  [rs |-> setEveryRow(rs, all), cb |-> [all |-> all, some |-> FALSE]]

\* mutant: the event follows the first row, as the header checkbox does
rowCheckboxEventOfFirstRow(rs, index) ==
    IF Len(rs) > 0 /\ rs[1]
    THEN TableEvent("selectRow", index)
    ELSE TableEvent("deselectRow", index)

\* the event onRowCheckboxChange(index) emits
rowCheckboxEvent(rs, index) ==
    IF rs[index + 1]
    THEN TableEvent("selectRow", index)
    ELSE TableEvent("deselectRow", index)

\* onRowCheckboxChange(index), with rowsSelected[index] already written by ngModel
onRowCheckboxChange(rs, cb) ==
    LET startValue == IF Len(rs) > 0 THEN rs[1] ELSE FALSE
    IN  IF \E i \in 2..Len(rs) : rs[i] # startValue
        THEN [all |-> FALSE, some |-> TRUE]
        ELSE [all |-> startValue, some |-> FALSE]

\* ------------------------------------------------------------ DialogService
\* the view containers: those a caller can pass to the service, and the one
\* of the dialog placeholder
CallerViews == {"host", "other"}

ViewContainers == CallerViews \cup {"placeholder"}

\* the components in some view container
Attached(vs) == UNION {{vs[v][k] : k \in 1..Len(vs[v])} : v \in ViewContainers}

\* the components view.createComponent can still create
Creatable(vs) == (1..MaxComponents) \ Attached(vs)

\* view.createComponent(componentFactory, 0, injector): a new component at
\* position 0
createComponent(vs, view, c) == [vs EXCEPT ![view] = <<c>> \o vs[view]]

\* view.remove(view.indexOf(hostView)): removes the component from the
\* container; with indexOf = -1 (the component is not in this container)
\* nothing is detached
removeComponent(vs, view, c) ==
    [vs EXCEPT ![view] = SelectSeq(vs[view], LAMBDA x : x # c)]

\* the service: its fields, the containers it works on, its emitter
DialogState ==
    [isOpen |-> isOpen, dialogRef |-> dialogRef, dialogConfig |-> dialogConfig,
     subscribedView |-> subscribedView, views |-> views, isClosedLast |-> isClosedLast]

\* open(viewContainer, dialogConfig)
open(s, viewContainer, appendToBody) ==
    IF s.dialogRef = 0
    THEN LET view == IF appendToBody /\ placeholder THEN "placeholder" ELSE viewContainer
             c    == CHOOSE x \in Creatable(s.views) : \A y \in Creatable(s.views) : x <= y
         IN  [s EXCEPT !.views = createComponent(s.views, view, c),
                       !.dialogRef = c,
                       !.dialogConfig = appendToBody,
                       !.isOpen = TRUE,
                       !.subscribedView = view]
    ELSE s

\* mutant: close leaves the reference to the removed component
closeKeepsRef(s, viewContainer) ==
    LET emitted == [s EXCEPT !.isClosedLast = "true"]
    IN  IF s.dialogRef # 0
        THEN LET view == IF s.dialogConfig /\ placeholder THEN "placeholder" ELSE viewContainer
             IN  [emitted EXCEPT !.views = removeComponent(s.views, view, s.dialogRef),
                                 !.isOpen = FALSE,
                                 !.subscribedView = "none"]
        ELSE emitted

\* close(viewContainer)
close(s, viewContainer) ==
    LET emitted == [s EXCEPT !.isClosedLast = "true"]
    IN  IF s.dialogRef # 0
        THEN LET view == IF s.dialogConfig /\ placeholder THEN "placeholder" ELSE viewContainer
             IN  [emitted EXCEPT !.views = removeComponent(s.views, view, s.dialogRef),
                                 !.dialogRef = 0,
                                 !.isOpen = FALSE,
                                 !.subscribedView = "none"]
        ELSE emitted

\* mutant: toggle opens whatever the state
toggleOpens(s, viewContainer, appendToBody) == open(s, viewContainer, appendToBody)

\* toggle(viewContainer, dialogConfig)
toggle(s, viewContainer, appendToBody) ==
    IF s.isOpen THEN close(s, viewContainer) ELSE open(s, viewContainer, appendToBody)

\* open can run: create() has set the component factory (open throws
\* without it, before any assignment) and a component can be created
CanOpen == componentFactory /\ Creatable(views) # {}

\* the service takes the state s; the toggle count starts again whenever
\* another operation leaves the dialog closed
DialogBecomes(s, op, count) ==
    /\ isOpen' = s.isOpen
    /\ dialogRef' = s.dialogRef
    /\ dialogConfig' = s.dialogConfig
    /\ subscribedView' = s.subscribedView
    /\ views' = s.views
    /\ isClosedLast' = s.isClosedLast
    /\ dialogOp' = op
    /\ toggles' = count
    /\ UNCHANGED <<componentFactory, placeholder>>
    /\ UNCHANGED <<tableVars, eventVars, around, sortVars, fetchVars, iconVars, listVars>>

InitDialog ==
    /\ isOpen = FALSE
    /\ dialogRef = 0
    /\ componentFactory = FALSE
    /\ dialogConfig = FALSE
    /\ subscribedView = "none"
    /\ placeholder = FALSE
    /\ views = [v \in ViewContainers |-> <<>>]
    /\ isClosedLast = "none"
    /\ toggles = 0
    /\ dialogOp = "none"

\* create(component)
CreateDialog ==
    /\ ~componentFactory
    /\ componentFactory' = TRUE
    /\ dialogOp' = "create"
    /\ UNCHANGED <<isOpen, dialogRef, dialogConfig, subscribedView, placeholder,
                   views, isClosedLast, toggles>>
    /\ UNCHANGED <<tableVars, eventVars, around, sortVars, fetchVars, iconVars, listVars>>

\* the dialog placeholder registers its view container with the service
PlaceholderInit ==
    /\ ~placeholder
    /\ placeholder' = TRUE
    /\ dialogOp' = "placeholder"
    /\ UNCHANGED <<isOpen, dialogRef, componentFactory, dialogConfig, subscribedView,
                   views, isClosedLast, toggles>>
    /\ UNCHANGED <<tableVars, eventVars, around, sortVars, fetchVars, iconVars, listVars>>

\* a caller opens the dialog
OpenDialog(viewContainer, appendToBody) ==
    /\ CanOpen
    /\ DialogBecomes(open(DialogState, viewContainer, appendToBody),
                     IF dialogRef = 0 THEN "open" ELSE "openWhileOpen", -1)

\* a caller closes the dialog
CloseDialog(viewContainer) ==
    /\ DialogBecomes(close(DialogState, viewContainer),
                     IF dialogRef # 0 THEN "close" ELSE "closeWhileClosed", 0)

\* a caller toggles the dialog
ToggleDialog(viewContainer, appendToBody) ==
    /\ isOpen \/ CanOpen
    /\ toggles < MaxToggles
    /\ DialogBecomes(toggle(DialogState, viewContainer, appendToBody), "toggle",
                     IF toggles >= 0 THEN toggles + 1 ELSE 0)

\* the dialog component emits its close event: the subscription made by
\* open calls close with the view it captured
DialogEmitsClose ==
    /\ dialogRef # 0
    /\ subscribedView # "none"
    /\ DialogBecomes(close(DialogState, subscribedView), "closeEvent", 0)

\* ------------------------------------------------------------ IconService
\* the sprites the application asks for
SpriteNames == {"core", "extra"}

\* the IconService instances (they share the static fields)
IconServices == {1, 2}

\* An observable made by doSpriteRequest(name) is identified by the number
\* of the call that made it among the calls for that name.

\* mutant: the cache is consulted whatever the cache level
getSpriteAlwaysCached(level, cache, made, name) ==
    IF cache[name] # 0
    THEN [observable |-> cache[name], cache |-> cache, requested |-> FALSE]
    ELSE [observable |-> made[name] + 1,
          cache      |-> [cache EXCEPT ![name] = made[name] + 1],
          requested  |-> TRUE]

\* getSprite(name): the observable returned, the cache afterwards, and
\* whether doSpriteRequest(name) was called
getSprite(level, cache, made, name) ==
    IF level = "none"
    THEN [observable |-> made[name] + 1, cache |-> cache, requested |-> TRUE]
    ELSE IF cache[name] # 0
         THEN [observable |-> cache[name], cache |-> cache, requested |-> FALSE]
         ELSE [observable |-> made[name] + 1,
               cache      |-> [cache EXCEPT ![name] = made[name] + 1],
               requested  |-> TRUE]

InitIcon ==
    /\ cacheLevel = "simple"
    /\ spriteCache = [n \in SpriteNames |-> 0]
    /\ spriteRequests = [n \in SpriteNames |-> 0]
    /\ cachedRequests = [n \in SpriteNames |-> 0]
    /\ lastSprite = [service |-> 0, name |-> "none", level |-> "none", observable |-> 0]
    /\ runningRequests = 0

\* IconService.setCacheLevel(level)
SetCacheLevel(level) ==
    /\ cacheLevel # level
    /\ cacheLevel' = level
    /\ UNCHANGED <<spriteCache, spriteRequests, cachedRequests, lastSprite, runningRequests>>
    /\ UNCHANGED <<tableVars, eventVars, around, sortVars, fetchVars, dialogVars, listVars>>

\* the call service.getSprite(name); doSpriteRequest counts the request it
\* makes in runningRequests
getSpriteCall(service, name) ==
    LET r == getSprite(cacheLevel, spriteCache, spriteRequests, name)
    IN  /\ r.requested => spriteRequests[name] < MaxSpriteRequests
        /\ spriteCache' = r.cache
        /\ spriteRequests' =
              IF r.requested THEN [spriteRequests EXCEPT ![name] = @ + 1] ELSE spriteRequests
        /\ cachedRequests' =
              IF r.requested /\ cacheLevel = "simple"
              THEN [cachedRequests EXCEPT ![name] = @ + 1] ELSE cachedRequests
        /\ runningRequests' = IF r.requested THEN runningRequests + 1 ELSE runningRequests
        /\ lastSprite' = [service |-> service, name |-> name, level |-> cacheLevel,
                          observable |-> r.observable]
        /\ UNCHANGED cacheLevel

\* an IconService instance is asked for a sprite
GetSprite(service, name) ==
        /\ getSpriteCall(service, name)
        /\ UNCHANGED <<tableVars, eventVars, around, sortVars, fetchVars, dialogVars, listVars>>

\* ------------------------------------------------------------ DropdownList
\* the contents of list items
ItemContents == { <<"a">>, <<"A", "b">>, <<"b">> }

\* the queries typed into the dropdown's filter
Queries == { <<>>, <<"a">>, <<"B">>, <<"a", "b">> }

\* the lists the owner of the dropdown can bind to [items]
RECURSIVE ItemLists(_)
ItemLists(n) ==
    IF n = 0 THEN { <<>> }
    ELSE ItemLists(n - 1) \cup
         { Append(l, [content |-> c, selected |-> b, disabled |-> FALSE]) :
               l \in {x \in ItemLists(n - 1) : Len(x) = n - 1},
               c \in ItemContents, b \in BOOLEAN }

\* the lists of a dropdown whose first item can be disabled
RECURSIVE ClickLists(_)
ClickLists(n) ==
    IF n = 0 THEN { <<>> }
    ELSE ClickLists(n - 1) \cup
         { Append(l, [content |-> <<"b">>, selected |-> b, disabled |-> d]) :
               l \in {x \in ClickLists(n - 1) : Len(x) = n - 1},
               b \in BOOLEAN, d \in IF n = 1 THEN BOOLEAN ELSE {FALSE} }

\* items.map(item => Object.assign({}, item)): a new object for each item;
\* an object is identified by its generation and its position in the list
copyItems(list, generation) ==
    [k \in 1..Len(list) |->
        [id |-> <<generation, k>>, content |-> list[k].content,
         selected |-> list[k].selected, disabled |-> list[k].disabled]]

\* item.content.toLowerCase().includes(query.toLowerCase())
includesQuery(item, query) == indexOfGE0(toLowerCase(item.content), toLowerCase(query))

\* mutant: the contents are compared as they are written
filterByAsWritten(its, query) ==
    IF Len(query) > 0
    THEN SelectSeq(its, LAMBDA item : indexOfGE0(item.content, query))
    ELSE its

\* filterBy(query): the new displayItems
filterBy(its, query) ==
    IF Len(query) > 0
    THEN SelectSeq(its, LAMBDA item : includesQuery(item, query))
    ELSE its

\* items.findIndex(item => item.selected): -1 when no item is selected
findIndexSelected(its) ==
    IF \E j \in 1..Len(its) : its[j].selected
    THEN (CHOOSE j \in 1..Len(its) :
              its[j].selected /\ \A h \in 1..(j - 1) : ~its[h].selected) - 1
    ELSE -1

\* items.indexOf(item): objects are compared by identity
indexOfItem(its, item) ==
    IF \E j \in 1..Len(its) : its[j].id = item.id
    THEN (CHOOSE j \in 1..Len(its) : its[j].id = item.id) - 1
    ELSE -1

\* getSelected(): the selected items, null when there are none
getSelected(its) ==
    LET selected == SelectSeq(its, LAMBDA item : item.selected)
    IN  IF Len(selected) = 0 THEN [kind |-> "null", value |-> <<>>]
        ELSE [kind |-> "selected", value |-> selected]

\* mutant: a click toggles the item and leaves the others as they are
doClickTogglesOnly(object, type, item) ==
    IF object.id = item.id THEN [object EXCEPT !.selected = ~@] ELSE object

\* doClick(event, item) on an item that is not disabled: what becomes of an
\* object of the list (the objects of displayItems are objects of items)
doClick(object, type, item) ==
    IF object.id = item.id THEN [object EXCEPT !.selected = ~@]
    ELSE IF type = "single" THEN [object EXCEPT !.selected = FALSE]
    ELSE object

InitList ==
    /\ items = <<>>
    /\ displayItems = <<>>
    /\ copies = 0
    /\ listType = "single"
    /\ listIndex = -1
    /\ listSelect = [kind |-> "none", value |-> <<>>]

\* updateList(items), called by ngOnChanges when [items] changes
UpdateList(list) ==
    /\ copies' = 1 - copies
    /\ items' = copyItems(list, copies')
    /\ displayItems' = items'
    /\ listIndex' = findIndexSelected(items')
    /\ UNCHANGED <<listType, listSelect>>
    /\ UNCHANGED <<tableVars, eventVars, around, sortVars, fetchVars, dialogVars, iconVars>>

\* the owner binds another [type]
SetListType(type) ==
    /\ listType # type
    /\ listType' = type
    /\ UNCHANGED <<items, displayItems, copies, listIndex, listSelect>>
    /\ UNCHANGED <<tableVars, eventVars, around, sortVars, fetchVars, dialogVars, iconVars>>

\* a click on the k-th displayed item: doClick(event, item)
DoClick(k) ==
    LET item == displayItems[k]
    IN  /\ k \in 1..Len(displayItems)
        /\ IF item.disabled
           THEN UNCHANGED <<items, displayItems, listIndex, listSelect>>
           ELSE /\ items' = [j \in 1..Len(items) |-> doClick(items[j], listType, item)]
                /\ displayItems' =
                      [j \in 1..Len(displayItems) |-> doClick(displayItems[j], listType, item)]
                /\ listSelect' =
                      IF listType = "single"
                      THEN [kind |-> "item", value |-> <<doClick(item, listType, item)>>]
                      ELSE getSelected(items')
                /\ listIndex' = indexOfItem(items, item)
        /\ UNCHANGED <<copies, listType>>
        /\ UNCHANGED <<tableVars, eventVars, around, sortVars, fetchVars, dialogVars, iconVars>>

\* filterBy(query)
FilterBy(query) ==
    /\ displayItems' = filterBy(items, query)
    /\ UNCHANGED <<items, copies, listType, listIndex, listSelect>>
    /\ UNCHANGED <<tableVars, eventVars, around, sortVars, fetchVars, dialogVars, iconVars>>

\* ------------------------------------------------------------ range
\* the arguments of range
RangeArguments == (0 - MaxRange)..MaxRange

\* Math.ceil(a / b) for integers a and b, b not 0
ceilOfQuotient(a, b) ==
    IF b > 0 THEN 0 - ((0 - a) \div b) ELSE 0 - (a \div (0 - b))

\* range(stop, start, step): Array(n) raises a RangeError for a negative
\* length n; fill and map give the element i * step + start at index i
range(stop, start, step) ==
    LET n == ceilOfQuotient(stop - start, step)
    IN  IF n < 0
        THEN [error |-> "RangeError", value |-> <<>>]
        ELSE [error |-> "none", value |-> [i \in 1..n |-> (i - 1) * step + start]]

InitRange ==
    rangeCall = [called |-> FALSE, stop |-> 0, start |-> 0, step |-> 1,
                 result |-> [error |-> "none", value |-> <<>>]]

\* a template or a component calls range(stop, start, step)
CallRange(stop, start, step) ==
    /\ step # 0
    /\ rangeCall' = [called |-> TRUE, stop |-> stop, start |-> start, step |-> step,
                     result |-> range(stop, start, step)]
    /\ UNCHANGED <<tableVars, eventVars, sortVars, fetchVars, dialogVars, iconVars, listVars,
                   loadVars, scrollVars, swapVars>>

\* ------------------------------------------------------------ Sprite, getIcon
\* the icons asked for: their symbol ids, name_size
Icons == {"add_16", "both_16", "ghost_16"}

\* the symbols of the SVG text the server has for each sprite
Symbols(name) == IF name = "core" THEN {"add_16", "both_16"} ELSE {"both_16"}

\* the symbols in the document: those of the sprites whose text a Sprite
\* component has put into its element
Document(sp) == UNION { Symbols(n) : n \in {m \in SpriteNames : sp[m] \in {"injected", "loaded"}} }

\* icon.firstElementChild.cloneNode(true)
clone(icon) == <<"content", icon>>

\* resolve(value) of a promise: the first call settles it, later calls do nothing
resolve(promise, value) ==
    IF promise.state = "pending"
    THEN [promise EXCEPT !.state = "resolved", !.value = value, !.resolveCalls = @ + 1]
    ELSE [promise EXCEPT !.resolveCalls = @ + 1]

\* mutant: the resolver resolves without looking for the symbol
resolverAnyEmission(promise, icon, document) == resolve(promise, clone(icon))

\* resolver(resolve) of getIcon: resolves with a clone when the symbol is in
\* the document
resolver(promise, icon, document) ==
    IF icon \in document THEN resolve(promise, clone(icon)) ELSE promise

InitLoad ==
    /\ sprites = [n \in SpriteNames |-> "none"]
    /\ promises = [i \in Icons |->
                      [state |-> "none", value |-> <<>>, resolveCalls |-> 0, waited |-> FALSE]]
    /\ logged = {}

\* Sprite.ngAfterViewInit: getSprite(sprite).subscribe(...) sends the request
SpriteAfterViewInit(service, name) ==
    /\ sprites[name] = "none"
    /\ getSpriteCall(service, name)
    /\ sprites' = [sprites EXCEPT ![name] = "requested"]
    /\ UNCHANGED <<promises, logged>>
    /\ UNCHANGED <<tableVars, eventVars, sortVars, fetchVars, dialogVars, listVars,
                   rangeVars, scrollVars, swapVars>>

\* the server answers: tap counts the request down and the subscriber of
\* the Sprite puts the text into its element and sets the timer
SpriteResponse(name) ==
    /\ sprites[name] = "requested"
    /\ runningRequests' = runningRequests - 1
    /\ sprites' = [sprites EXCEPT ![name] = "injected"]
    /\ UNCHANGED <<promises, logged>>
    /\ UNCHANGED <<cacheLevel, spriteCache, spriteRequests, cachedRequests, lastSprite>>
    /\ UNCHANGED <<tableVars, eventVars, sortVars, fetchVars, dialogVars, listVars,
                   rangeVars, scrollVars, swapVars>>

\* mutant: a failed request is answered with a text all the same
SpriteRequestFailsWithValue(name) ==
    /\ sprites[name] = "requested"
    /\ logged' = logged \cup {name}
    /\ sprites' = [sprites EXCEPT ![name] = "injected"]
    /\ UNCHANGED promises
    /\ UNCHANGED iconVars
    /\ UNCHANGED <<tableVars, eventVars, sortVars, fetchVars, dialogVars, listVars,
                   rangeVars, scrollVars, swapVars>>

\* the request fails: catchError writes the error to the console and
\* rethrows it; the Sprite subscribed with a next handler alone
SpriteRequestFails(name) ==
    /\ sprites[name] = "requested"
    /\ logged' = logged \cup {name}
    /\ sprites' = [sprites EXCEPT ![name] = "failed"]
    /\ UNCHANGED promises
    /\ UNCHANGED iconVars
    /\ UNCHANGED <<tableVars, eventVars, sortVars, fetchVars, dialogVars, listVars,
                   rangeVars, scrollVars, swapVars>>

\* the timer of a Sprite runs: IconService.spriteLoaded.emit() calls the
\* resolver of every promise of getIcon (each of them subscribed)
SpriteLoadedTimer(name) ==
    /\ sprites[name] = "injected"
    /\ sprites' = [sprites EXCEPT ![name] = "loaded"]
    /\ promises' = [i \in Icons |->
                       IF promises[i].state = "none" THEN promises[i]
                       ELSE resolver(promises[i], i, Document(sprites))]
    /\ UNCHANGED logged
    /\ UNCHANGED iconVars
    /\ UNCHANGED <<tableVars, eventVars, sortVars, fetchVars, dialogVars, listVars,
                   rangeVars, scrollVars, swapVars>>

\* getIcon(name, size): the executor runs the resolver at once and
\* subscribes it to spriteLoaded (resolve returns undefined, so that the
\* subscription is made whether or not the symbol was found)
GetIcon(icon) ==
    /\ promises[icon].state = "none"
    /\ promises' = [promises EXCEPT ![icon] =
                       resolver([state |-> "pending", value |-> <<>>, resolveCalls |-> 0,
                                 waited |-> icon \notin Document(sprites)],
                                icon, Document(sprites))]
    /\ UNCHANGED <<sprites, logged>>
    /\ UNCHANGED iconVars
    /\ UNCHANGED <<tableVars, eventVars, sortVars, fetchVars, dialogVars, listVars,
                   rangeVars, scrollVars, swapVars>>

\* ------------------------------------------------------------ scrolling
\* event.target.clientHeight: the height of the table body
ClientHeight == 2

\* mutant: the event is emitted within the distance, but not at it
onScrollBelowDistance(scrollHeight, clientHeight, scrollTop, distance, model, end) ==
    LET distanceFromBottom == scrollHeight - clientHeight - scrollTop
    IN  IF distanceFromBottom < distance
        THEN [scrollLoad |-> <<model>>, isEnd |-> end]
        ELSE [scrollLoad |-> <<>>, isEnd |-> FALSE]

\* onScroll(event): the values scrollLoad emits and the new model.isEnd
onScroll(scrollHeight, clientHeight, scrollTop, distance, model, end) ==
    LET distanceFromBottom == scrollHeight - clientHeight - scrollTop
    IN  IF distanceFromBottom <= distance
        THEN [scrollLoad |-> <<model>>, isEnd |-> end]
        ELSE [scrollLoad |-> <<>>, isEnd |-> FALSE]

InitScroll ==
    /\ isEnd = FALSE
    /\ scrollLoadDistance = 0
    /\ lastScroll = [seen |-> FALSE, scrollHeight |-> ClientHeight, scrollTop |-> 0,
                     scrollLoad |-> <<>>]

\* the table body is scrolled: (scroll)="onScroll($event)"
Scroll(scrollHeight, scrollTop) ==
    LET r == onScroll(scrollHeight, ClientHeight, scrollTop, scrollLoadDistance, held, isEnd)
    IN  /\ scrollTop <= scrollHeight - ClientHeight
        /\ isEnd' = r.isEnd
        /\ lastScroll' = [seen |-> TRUE, scrollHeight |-> scrollHeight,
                          scrollTop |-> scrollTop, scrollLoad |-> r.scrollLoad]
        /\ UNCHANGED scrollLoadDistance
        /\ UNCHANGED <<tableVars, eventVars, sortVars, fetchVars, dialogVars, iconVars, listVars,
                       rangeVars, loadVars, swapVars>>

\* the owner of the table binds another [scrollLoadDistance]
SetScrollLoadDistance(distance) ==
    /\ scrollLoadDistance # distance
    /\ scrollLoadDistance' = distance
    /\ UNCHANGED <<isEnd, lastScroll>>
    /\ UNCHANGED <<tableVars, eventVars, sortVars, fetchVars, dialogVars, iconVars, listVars,
                   rangeVars, loadVars, swapVars>>

\* the application, having loaded the last rows, sets model.isEnd
SetIsEnd ==
    /\ ~isEnd
    /\ isEnd' = TRUE
    /\ UNCHANGED <<scrollLoadDistance, lastScroll>>
    /\ UNCHANGED <<tableVars, eventVars, sortVars, fetchVars, dialogVars, iconVars, listVars,
                   rangeVars, loadVars, swapVars>>

\* scrollToTop(event), the button of the end-of-data row; the scroll event
\* the browser sends for the new position is a step of its own
ScrollToTop ==
    /\ isEnd
    /\ isEnd' = FALSE
    /\ UNCHANGED <<scrollLoadDistance, lastScroll>>
    /\ UNCHANGED <<tableVars, eventVars, sortVars, fetchVars, dialogVars, iconVars, listVars,
                   rangeVars, loadVars, swapVars>>

InitEvents ==
    /\ tableEvents = <<>>
    /\ moveCall = [called |-> FALSE, from |-> 0, to |-> 0]

InitSwap ==
    /\ held = 1
    /\ oldRows = <<>>
    /\ closedEmitters = {}
    /\ raised = "none"

\* the record of the last operation: its name when it is the observed
\* operation, "other" when it is not
Op(name) == IF name = observed THEN name ELSE "other"

\* the record of the mutations ms of a handler and of their notifications,
\* kept when notifications are what is observed
Recorded(ms) == IF observed \in {"notifications", "rowClick"} THEN deliver(ms) ELSE <<>>

\* the record of the output events es of a handler of the table, kept when
\* the events or the row clicks are what is observed
Emitted(es) == IF observed \in {"events", "rowClick"} THEN es ELSE <<>>

InitObserving(op) ==
    /\ observed = op
    /\ header = [c \in 1..NCols |-> NewHeaderItem(c)]
    /\ data = <<>>
    /\ rowsSelected = <<>>
    /\ rowsExpanded = <<>>
    /\ rowsContext = <<>>
    /\ selectAllCheckbox = FALSE
    /\ selectAllCheckboxSomeSelected = FALSE
    /\ showSelectionColumn \in BOOLEAN
    /\ enableSingleSelect \in BOOLEAN
    /\ lastOp = "other"
    /\ received = <<>>
    /\ sortEmitted = -1
    /\ currentPage = 1
    /\ requests = <<>>
    /\ pending = {}
    /\ completions = <<>>
    /\ InitDialog
    /\ InitIcon
    /\ InitList
    /\ InitRange
    /\ InitLoad
    /\ InitScroll
    /\ InitEvents
    /\ InitSwap

Init == InitObserving("none")

\* ------------------------------------------------------------ actions
\* model.data = d: the setter re-derives the per-row arrays and emits
\* dataChange, handled by updateSelectAllCheckbox
dataSetter(d) ==
    LET rs == freshRowArray(Len(d), FALSE)
        cb == updateSelectAllCheckbox(rs, d, CheckboxState)
    IN  /\ data' = [r \in 1..Len(d) |-> [j \in 1..NCols |-> d[r][header[j].col]]]
        /\ rowsSelected' = rs
        /\ rowsExpanded' = freshRowArray(Len(d), FALSE)
        /\ rowsContext' = freshRowArray(Len(d), "none")
        /\ selectAllCheckbox' = cb.all
        /\ selectAllCheckboxSomeSelected' = cb.some
        /\ received' = Recorded(<< Mutated(rs, d) >>)

\* the application replaces model.data
SetData(n, v) ==
    /\ dataSetter(TableData(n, v))
    /\ lastOp' = Op("setData")
    /\ UNCHANGED <<header, inputs, elsewhere>>

\* the pages of the remote data set
Pages == {1, 2}

\* the number of rows of a page: the last page is shorter
PageRows(page) == IF page = 1 THEN MaxRows ELSE 1

\* selectPage(page): the application asks its service for the page
SelectPage(page) ==
    /\ Len(requests) < MaxRequests
    /\ requests' = Append(requests, page)
    /\ pending' = pending \cup {Len(requests) + 1}
    /\ UNCHANGED <<tableVars, currentPage, completions,
                   sortVars, dialogVars, iconVars, listVars, eventVars, around>>

\* mutant: the answer to a request is dropped when a later request exists
CompletePageUnlessSuperseded(id) ==
    /\ id \in pending
    /\ pending' = pending \ {id}
    /\ completions' = Append(completions, id)
    /\ IF id < Len(requests)
       THEN UNCHANGED <<data, rowsSelected, rowsExpanded, rowsContext,
                        selectAllCheckbox, selectAllCheckboxSomeSelected,
                        received, currentPage>>
       ELSE /\ dataSetter(TableData(PageRows(requests[id]), requests[id]))
            /\ currentPage' = requests[id]
    /\ lastOp' = Op("completePage")
    /\ UNCHANGED <<header, inputs, requests,
                   sortVars, dialogVars, iconVars, listVars, eventVars, around>>

\* the service answers a request: the callback of getPage(page).then sets
\* model.data to the new rows and model.currentPage to the page
CompletePage(id) ==
    /\ id \in pending
    /\ pending' = pending \ {id}
    /\ completions' = Append(completions, id)
    /\ dataSetter(TableData(PageRows(requests[id]), requests[id]))
    /\ currentPage' = requests[id]
    /\ lastOp' = Op("completePage")
    /\ UNCHANGED <<header, inputs, requests,
                   sortVars, dialogVars, iconVars, listVars, eventVars, around>>

\* the service fails a request: the promise is rejected, no callback runs
FailPage(id) ==
    /\ id \in pending
    /\ pending' = pending \ {id}
    /\ UNCHANGED <<tableVars, currentPage, requests, completions,
                   sortVars, dialogVars, iconVars, listVars, eventVars, around>>

\* emitter.emit(value) on an emitter of model m: an EventEmitter is a
\* Subject, and a Subject that was unsubscribed is closed and throws on next
emit(closed, m) == IF m \in closed THEN "ObjectUnsubscribedError" ELSE "none"

\* the owner of the table binds another model to [model], a new TableModel
\* of n rows, all selected or none: the setter unsubscribes the emitters of
\* the model it held and subscribes updateSelectAllCheckbox to the emitters
\* of the new one; it does not call updateSelectAllCheckbox itself
SetModel(n, selected) ==
    /\ held < MaxModels
    /\ closedEmitters' = closedEmitters \cup {held}
    /\ held' = held + 1
    /\ oldRows' = rowsSelected
    /\ raised' = "none"
    /\ header' = [c \in 1..NCols |-> NewHeaderItem(c)]
    /\ data' = TableData(n, 1)
    /\ rowsSelected' = freshRowArray(n, selected)
    /\ rowsExpanded' = freshRowArray(n, FALSE)
    /\ rowsContext' = freshRowArray(n, "none")
    /\ received' = Recorded(<<>>)
    /\ lastOp' = Op("setModel")
    /\ UNCHANGED <<selectAllCheckbox, selectAllCheckboxSomeSelected, inputs,
                   sortVars, fetchVars, dialogVars, iconVars, listVars, eventVars,
                   rangeVars, loadVars, scrollVars>>

\* another holder of the model the table held before calls
\* selectRow(index, value) on it: the row is written, then
\* rowsSelectedChange.emit() runs on the emitter the setter unsubscribed
OldModelSelectRow(index, value) ==
    /\ held > 1
    /\ oldRows' = selectRow(oldRows, index, value)
    /\ raised' = IF InRange(index, Len(oldRows))
                 THEN emit(closedEmitters, held - 1) ELSE "none"
    /\ UNCHANGED <<held, closedEmitters>>
    /\ UNCHANGED <<tableVars, sortVars, fetchVars, dialogVars, iconVars, listVars, eventVars,
                   rangeVars, loadVars, scrollVars>>

\* a holder of the model calls model.selectRow(index, value)
ModelSelectRow(index, value) ==
    LET r == selectRowNotify(rowsSelected, data, CheckboxState, index, value)
    IN  /\ rowsSelected' = r.rs
        /\ selectAllCheckbox' = r.cb.all
        /\ selectAllCheckboxSomeSelected' = r.cb.some
        /\ lastOp' = Op(IF ~InRange(index, Len(rowsSelected)) THEN "selectRowOutOfRange"
                        ELSE IF value THEN "selectRowTrue" ELSE "selectRowFalse")
        /\ received' = Recorded(r.ms)
        /\ UNCHANGED <<header, data, rowsExpanded, rowsContext,
                       inputs, elsewhere>>

\* a holder of the model calls model.selectAll(value); one notification
ModelSelectAll(value) ==
    LET rs == selectAll(rowsSelected, value)
        cb == updateSelectAllCheckbox(rs, data, CheckboxState)
    IN  /\ rowsSelected' = rs
        /\ selectAllCheckbox' = cb.all
        /\ selectAllCheckboxSomeSelected' = cb.some
        /\ lastOp' = Op("selectAll")
        /\ received' = Recorded(<< Mutated(rs, data) >>)
        /\ UNCHANGED <<header, data, rowsExpanded, rowsContext,
                       inputs, elsewhere>>

\* a holder of the model calls model.expandRow(index, value)
ModelExpandRow(index, value) ==
    /\ rowsExpanded' = expandRow(rowsExpanded, index, value)
    /\ lastOp' = Op("expandRow")
    /\ UNCHANGED <<header, data, rowsSelected, rowsContext,
                   selectAllCheckbox, selectAllCheckboxSomeSelected,
                   inputs, received, elsewhere>>

\* a holder of the model calls model.moveColumn(from, to)
ModelMoveColumn(from, to) ==
    /\ header' = moveColumnHeader(header, from, to)
    /\ data' = moveColumnData(header, data, from, to)
    /\ lastOp' = Op("moveColumn")
    /\ UNCHANGED <<rowsSelected, rowsExpanded, rowsContext,
                   selectAllCheckbox, selectAllCheckboxSomeSelected,
                   inputs, received, elsewhere>>

\* click on a rendered row: (click)="onRowSelect(i)"
RowClick(index) ==
    /\ InRange(index, Len(data))
    /\ rowRendered(header, data, index)
    /\ LET r == onRowSelect(rowsSelected, data, CheckboxState,
                            ~showSelectionColumn /\ enableSingleSelect, index)
       IN  /\ rowsSelected' = r.rs
           /\ selectAllCheckbox' = r.cb.all
           /\ selectAllCheckboxSomeSelected' = r.cb.some
           /\ received' = Recorded(r.ms)
    /\ tableEvents' = Emitted(<<>>)
    /\ lastOp' = Op("rowClick")
    /\ UNCHANGED <<header, data, rowsExpanded, rowsContext,
                   inputs, elsewhereButEvents, moveCall>>

\* click on a row's checkbox: ngModel writes model.rowsSelected[i], then
\* (change)="onRowCheckboxChange(i)"; the click also reaches the row's
\* onRowSelect, which does nothing while the selection column is shown
RowCheckboxClick(index) ==
    /\ showSelectionColumn
    /\ InRange(index, Len(data))
    /\ rowRendered(header, data, index)
    /\ LET rs == [rowsSelected EXCEPT ![index + 1] = ~rowsSelected[index + 1]]
           cb == onRowCheckboxChange(rs, CheckboxState)
       IN  /\ rowsSelected' = rs
           /\ selectAllCheckbox' = cb.all
           /\ selectAllCheckboxSomeSelected' = cb.some
           /\ tableEvents' = Emitted(<<rowCheckboxEvent(rs, index)>>)
    /\ lastOp' = Op("rowCheckbox")
    /\ UNCHANGED <<header, data, rowsExpanded, rowsContext,
                   inputs, received, elsewhereButEvents, moveCall>>

\* click on the header checkbox: ngModel writes selectAllCheckbox, then
\* (change)="onSelectAllCheckboxChange()"
SelectAllCheckboxClick(checked) ==
    /\ showSelectionColumn
    /\ LET cb == [all |-> checked, some |-> selectAllCheckboxSomeSelected]
           r  == onSelectAllCheckboxChange(rowsSelected, cb)
       IN  /\ rowsSelected' = r.rs
           /\ selectAllCheckbox' = r.cb.all
           /\ selectAllCheckboxSomeSelected' = r.cb.some
           /\ tableEvents' = Emitted(<<selectAllEvent(cb)>>)
    /\ lastOp' = Op("selectAllCheckbox")
    /\ UNCHANGED <<header, data, rowsExpanded, rowsContext,
                   inputs, received, elsewhereButEvents, moveCall>>

\* click on a row's expand button: model.expandRow(i, !model.rowsExpanded[i]);
\* the click then reaches the row's (click)="onRowSelect(i)"
ExpandButtonClick(index) ==
    /\ InRange(index, Len(data))
    /\ rowRendered(header, data, index)
    /\ hasExpandableRows(data)
    /\ isRowExpandable(data, index)
    /\ rowsExpanded' = expandRow(rowsExpanded, index, ~rowsExpanded[index + 1])
    /\ LET r == onRowSelect(rowsSelected, data, CheckboxState,
                            ~showSelectionColumn /\ enableSingleSelect, index)
       IN  /\ rowsSelected' = r.rs
           /\ selectAllCheckbox' = r.cb.all
           /\ selectAllCheckboxSomeSelected' = r.cb.some
           /\ received' = Recorded(r.ms)
    /\ tableEvents' = Emitted(<<>>)
    /\ lastOp' = Op("expandButton")
    /\ UNCHANGED <<header, data, rowsContext,
                   inputs, elsewhereButEvents, moveCall>>

\* the decimal digits
Digits == <<"0", "1", "2", "3", "4", "5", "6", "7", "8", "9">>

\* JSON.stringify(n) of an index n >= 0: its decimal digits
RECURSIVE stringifyIndex(_)
stringifyIndex(n) ==
    IF n < 10 THEN <<Digits[n + 1]>>
    ELSE Append(stringifyIndex(n \div 10), Digits[(n % 10) + 1])

\* parseInt(text, 10) of a string of decimal digits
RECURSIVE parseInt10(_)
parseInt10(text) ==
    LET digit(c) == (CHOOSE k \in 1..10 : Digits[k] = c) - 1
    IN  IF Len(text) = 1 THEN digit(text[1])
        ELSE 10 * parseInt10(SubSeq(text, 1, Len(text) - 1)) + digit(text[Len(text)])

\* drop of the dragged column on the left or right drop area of a column;
\* columnDragStart put the index of the dragged column into the drag data
ColumnDrop(draggedColumn, position, columnIndex) ==
    LET dragged == parseInt10(stringifyIndex(draggedColumn))
        to == columnIndex + (IF position = "right" THEN 1 ELSE 0)
    IN  /\ header' = moveColumnHeader(header, dragged, to)
        /\ data' = moveColumnData(header, data, dragged, to)
        /\ moveCall' = IF observed = "columnDrop"
                       THEN [called |-> TRUE, from |-> dragged, to |-> to]
                       ELSE moveCall
        /\ lastOp' = Op("columnDrop")
        /\ UNCHANGED <<rowsSelected, rowsExpanded, rowsContext,
                       selectAllCheckbox, selectAllCheckboxSomeSelected,
                       inputs, received, elsewhereButEvents, tableEvents>>

\* mutant: setting a filter deselects the rows it hides
SetFilterDeselectsHidden(column, term) ==
    /\ header[column + 1].filterData # term
    /\ header' = [header EXCEPT ![column + 1].filterData = term]
    /\ rowsSelected' = [k \in 1..Len(rowsSelected) |->
                           rowsSelected[k] /\ ~isRowFiltered(header', data, k - 1)]
    /\ lastOp' = Op("setFilter")
    /\ UNCHANGED <<data, rowsExpanded, rowsContext,
                   selectAllCheckbox, selectAllCheckboxSomeSelected,
                   inputs, received, elsewhere>>

\* the user edits the filter of a column through its filter button
\* ([data]="column.filterData"); rows are re-evaluated on the next render
SetFilter(column, term) ==
    /\ header[column + 1].filterData # term
    /\ header' = [header EXCEPT ![column + 1].filterData = term]
    /\ lastOp' = Op("setFilter")
    /\ UNCHANGED <<data, rowsSelected, rowsExpanded, rowsContext,
                   selectAllCheckbox, selectAllCheckboxSomeSelected,
                   inputs, received, elsewhere>>

\* mutant: the click sorts the rows itself (here: reverses them)
SortClickSortsRows(index) ==
    /\ InRange(index, Len(header))
    /\ sortEmitted' = index
    /\ data' = [r \in 1..Len(data) |-> data[Len(data) + 1 - r]]
    /\ lastOp' = Op("sort")
    /\ UNCHANGED <<header, rowsSelected, rowsExpanded, rowsContext,
                   selectAllCheckbox, selectAllCheckboxSomeSelected,
                   inputs, received, fetchVars, dialogVars, iconVars, listVars,
                   eventVars, around>>

\* click on the sort button of a column: (click)="sort.emit(i)"
SortClick(index) ==
    /\ InRange(index, Len(header))
    /\ sortEmitted' = index
    /\ lastOp' = Op("sort")
    /\ UNCHANGED <<header, data, rowsSelected, rowsExpanded, rowsContext,
                   selectAllCheckbox, selectAllCheckboxSomeSelected,
                   inputs, received, fetchVars, dialogVars, iconVars, listVars,
                   eventVars, around>>

\* the arguments of moveColumn: every in-range pair and pairs with one
\* index below or above the range
MoveArguments ==
    ((0..(NCols - 1)) \X (0..(NCols - 1)))
        \cup {<<-1, 0>>, <<NCols, 0>>, <<0, -1>>, <<0, NCols>>}

Next ==
    \/ \E n \in 0..MaxRows, v \in Variants : SetData(n, v)
    \/ \E i \in -1..MaxRows, b \in BOOLEAN : ModelSelectRow(i, b)
    \/ \E b \in BOOLEAN : ModelSelectAll(b)
    \/ \E i \in -1..MaxRows, b \in BOOLEAN : ModelExpandRow(i, b)
    \/ \E m \in MoveArguments : ModelMoveColumn(m[1], m[2])
    \/ \E i \in 0..(MaxRows - 1) : RowClick(i)
    \/ \E i \in 0..(MaxRows - 1) : RowCheckboxClick(i)
    \/ \E b \in BOOLEAN : SelectAllCheckboxClick(b)
    \/ \E i \in 0..(MaxRows - 1) : ExpandButtonClick(i)
    \/ \E from \in 0..(NCols - 1), c \in 0..(NCols - 1), p \in {"left", "right"} :
           ColumnDrop(from, p, c)
    \/ \E c \in 0..(NCols - 1), t \in FilterTerms : SetFilter(c, t)

Spec == Init /\ [][Next]_vars

\* the same system with the runs of one operation recorded in lastOp
SpecSelectRowTrue == InitObserving("selectRowTrue") /\ [][Next]_vars

SpecSelectRowOutOfRange == InitObserving("selectRowOutOfRange") /\ [][Next]_vars

SpecSelectAllCheckbox == InitObserving("selectAllCheckbox") /\ [][Next]_vars

SpecMoveColumn == InitObserving("moveColumn") /\ [][Next]_vars

SpecSetFilter == InitObserving("setFilter") /\ [][Next]_vars

SpecExpandRow == InitObserving("expandRow") /\ [][Next]_vars

\* the operations named by the header-checkbox derivation: row checkbox
\* changes (on the rows the filters leave rendered), model.selectRow calls
\* and data replacements
NextRowSelection ==
    \/ \E n \in 0..MaxRows, v \in Variants : SetData(n, v)
    \/ \E i \in -1..MaxRows, b \in BOOLEAN : ModelSelectRow(i, b)
    \/ \E i \in 0..(MaxRows - 1) : RowCheckboxClick(i)
    \/ \E c \in 0..(NCols - 1), t \in FilterTerms : SetFilter(c, t)

SpecRowSelection == Init /\ [][NextRowSelection]_vars

\* the models given to the table and their holders
NextSwap ==
    \/ \E n \in 0..MaxRows, v \in Variants : SetData(n, v)
    \/ \E i \in 0..(MaxRows - 1), b \in BOOLEAN : ModelSelectRow(i, b)
    \/ \E n \in 0..MaxRows, selected \in BOOLEAN : SetModel(n, selected)
    \/ \E i \in -1..MaxRows, b \in BOOLEAN : OldModelSelectRow(i, b)

SpecSwap == InitObserving("setModel") /\ [][NextSwap]_vars

\* the clicks on rows
NextRowClick ==
    \/ \E n \in 0..MaxRows, v \in Variants : SetData(n, v)
    \/ \E i \in 0..(MaxRows - 1) : RowClick(i)
    \/ \E c \in 0..(NCols - 1), t \in FilterTerms : SetFilter(c, t)

SpecRowClick == InitObserving("rowClick") /\ [][NextRowClick]_vars

\* the dragging of columns
NextColumnDrop ==
    \/ \E n \in 0..MaxRows, v \in Variants : SetData(n, v)
    \/ \E from \in 0..(NCols - 1), p \in {"left", "right"}, c \in 0..(NCols - 1) :
          ColumnDrop(from, p, c)

SpecColumnDrop == InitObserving("columnDrop") /\ [][NextColumnDrop]_vars

\* the checkboxes of the table and the events they emit
NextEvents ==
    \/ \E n \in 0..MaxRows, v \in Variants : SetData(n, v)
    \/ \E i \in 0..(MaxRows - 1), b \in BOOLEAN : ModelSelectRow(i, b)
    \/ \E i \in 0..(MaxRows - 1) : RowCheckboxClick(i)
    \/ \E checked \in BOOLEAN : SelectAllCheckboxClick(checked)

SpecEvents == InitObserving("events") /\ [][NextEvents]_vars

\* the operations that mutate the model through its methods or its data
\* setter (each emits a change notification), and the row checkbox, which
\* writes rowsSelected[i] directly
NextNotifications ==
    \/ \E n \in 0..MaxRows, v \in Variants : SetData(n, v)
    \/ \E i \in -1..MaxRows, b \in BOOLEAN : ModelSelectRow(i, b)
    \/ \E b \in BOOLEAN : ModelSelectAll(b)
    \/ \E i \in 0..(MaxRows - 1) : RowClick(i)
    \/ \E i \in 0..(MaxRows - 1) : RowCheckboxClick(i)

SpecNotifications == InitObserving("notifications") /\ [][NextNotifications]_vars

\* sort clicks among the operations that select and expand rows, move
\* columns and replace the data
NextSort ==
    \/ \E n \in 0..MaxRows, v \in Variants : SetData(n, v)
    \/ \E i \in 0..(MaxRows - 1), b \in BOOLEAN : ModelSelectRow(i, b)
    \/ \E i \in 0..(MaxRows - 1), b \in BOOLEAN : ModelExpandRow(i, b)
    \/ \E m \in MoveArguments : ModelMoveColumn(m[1], m[2])
    \/ \E c \in 0..(NCols - 1) : SortClick(c)

SpecSort == InitObserving("sort") /\ [][NextSort]_vars

\* the application's page fetches and their answers, among row selections
\* and filter changes
NextFetch ==
    \/ \E page \in Pages : SelectPage(page)
    \/ \E id \in 1..MaxRequests : CompletePage(id)
    \/ \E id \in 1..MaxRequests : FailPage(id)
    \/ \E i \in 0..(MaxRows - 1), b \in BOOLEAN : ModelSelectRow(i, b)

SpecFetch == InitObserving("completePage") /\ [][NextFetch]_vars

\* the dialog service, its callers, its dialog and the dialog placeholder
NextDialog ==
    \/ CreateDialog
    \/ PlaceholderInit
    \/ \E v \in CallerViews, a \in BOOLEAN : OpenDialog(v, a)
    \/ \E v \in CallerViews : CloseDialog(v)
    \/ \E v \in CallerViews, a \in BOOLEAN : ToggleDialog(v, a)
    \/ DialogEmitsClose

SpecDialog == Init /\ [][NextDialog]_vars

\* the icon services and the global cache configuration
NextIcon ==
    \/ \E level \in {"none", "simple"} : SetCacheLevel(level)
    \/ \E service \in IconServices, name \in SpriteNames : GetSprite(service, name)

SpecIcon == Init /\ [][NextIcon]_vars

\* the dropdown list, its owner and its filter
NextList ==
    \/ \E list \in ItemLists(MaxItems) : UpdateList(list)
    \/ \E query \in Queries : FilterBy(query)

SpecList == Init /\ [][NextList]_vars

\* the dropdown list and the clicks on its items
NextListClick ==
    \/ \E list \in ClickLists(MaxItems) : UpdateList(list)
    \/ \E query \in Queries : FilterBy(query)
    \/ \E type \in {"single", "multi"} : SetListType(type)
    \/ \E k \in 1..MaxItems : DoClick(k)

SpecListClick == Init /\ [][NextListClick]_vars

\* the Sprite components, the server and the callers of getIcon
NextLoad ==
    \/ \E service \in IconServices, name \in SpriteNames : SpriteAfterViewInit(service, name)
    \/ \E name \in SpriteNames : SpriteResponse(name)
    \/ \E name \in SpriteNames : SpriteRequestFails(name)
    \/ \E name \in SpriteNames : SpriteLoadedTimer(name)
    \/ \E icon \in Icons : GetIcon(icon)

SpecLoad == Init /\ [][NextLoad]_vars

\* the same, with the event loop running every timer that was set
SpecLoadFair ==
    SpecLoad /\ \A name \in SpriteNames : WF_vars(SpriteLoadedTimer(name))

\* the scrolling of the table body
NextScroll ==
    \/ \E scrollHeight \in ClientHeight..(ClientHeight + MaxScroll), scrollTop \in 0..MaxScroll :
          Scroll(scrollHeight, scrollTop)
    \/ \E distance \in 0..MaxScroll : SetScrollLoadDistance(distance)
    \/ SetIsEnd
    \/ ScrollToTop

SpecScroll == Init /\ [][NextScroll]_vars

\* the calls of range
NextRange ==
    \E stop \in RangeArguments, start \in RangeArguments, step \in RangeArguments :
        CallRange(stop, start, step)

SpecRange == Init /\ [][NextRange]_vars

\* ------------------------------------------------------------ properties
Count == selectedRowsCount(rowsSelected)

\* the tri-state classification of a selection count against the row count
Classify(count, total) ==
    IF count = 0 THEN [all |-> FALSE, some |-> FALSE]
    ELSE IF count < total THEN [all |-> FALSE, some |-> TRUE]
    ELSE [all |-> TRUE, some |-> FALSE]

\* C1: after any sequence of row checkbox changes, model.selectRow calls and
\* data replacements, the header checkbox (selectAllCheckbox,
\* selectAllCheckboxSomeSelected) is exactly the classification of
\* selectedRowsCount() against data.length: unchecked, indeterminate, checked.
C1_HeaderCheckboxIsClassification ==
    CheckboxState = Classify(Count, Len(data))

\* C2: rowsSelected, rowsExpanded, rowsContext and data have the same length
\* in every reachable state, also after data was replaced by an array of a
\* different length.
C2_SameLengths ==
    /\ Len(rowsSelected) = Len(data)
    /\ Len(rowsExpanded) = Len(data)
    /\ Len(rowsContext) = Len(data)

\* C2 witness: data was replaced by rows (the table is empty at first), a
\* column was moved, rows were selected and a row was expanded
C2_Witness ==
    /\ Len(data) = 2
    /\ header[1].col # 1
    /\ Count = 2
    /\ \E k \in 1..Len(rowsExpanded) : rowsExpanded[k]

\* C3: for a valid index i, after selectRow(i, true) row i is selected, the
\* count grew by one if row i was unselected before and is unchanged if it
\* was selected, and no other row's flag changed.
C3_SelectRowTrue ==
    [][\A i \in 0..(MaxRows - 1) :
         (/\ lastOp' = "selectRowTrue"
          /\ InRange(i, Len(rowsSelected))
          /\ ModelSelectRow(i, TRUE)) =>
            /\ Len(rowsSelected') = Len(rowsSelected)
            /\ rowsSelected'[i + 1]
            /\ selectedRowsCount(rowsSelected') =
                   Count + (IF rowsSelected[i + 1] THEN 0 ELSE 1)
            /\ \A k \in 1..Len(rowsSelected) :
                   k # i + 1 => rowsSelected'[k] = rowsSelected[k]]_vars

\* C3 witness: selectRow(i, true) has acted while another row stays unselected
C3_Witness ==
    /\ lastOp = "selectRowTrue"
    /\ Len(data) = 2
    /\ Count = 1

\* C4: selecting all (model.selectAll(true), or the header checkbox handler
\* with the checkbox checked and not indeterminate) leaves every row
\* selected; deselecting all (selectAll(false), or the handler in any other
\* case) leaves no row selected.
C4_BulkSelection ==
    [][/\ \A b \in BOOLEAN :
            ModelSelectAll(b) =>
               selectedRowsCount(rowsSelected') = (IF b THEN Len(data') ELSE 0)
       /\ \A b \in BOOLEAN :
            SelectAllCheckboxClick(b) =>
               selectedRowsCount(rowsSelected') =
                  (IF b /\ ~selectAllCheckboxSomeSelected THEN Len(data') ELSE 0)]_vars

\* C4 witness: the header checkbox handler has selected every row of a
\* table with several rows
C4_Witness ==
    /\ lastOp = "selectAllCheckbox"
    /\ selectAllCheckbox
    /\ Len(data) >= 2
    /\ Count = Len(data)

\* what a column move must preserve between two states: header and every
\* row keep their length and their items, and wherever a header item goes,
\* the cell that was at its position goes too, in every row
MovePreservesPairing ==
    /\ Len(header') = Len(header)
    /\ \A j \in 1..Len(header) : \E p \in 1..Len(header) : header'[p] = header[j]
    /\ Len(data') = Len(data)
    /\ \A r \in 1..Len(data) :
          /\ Len(data'[r]) = Len(data[r])
          /\ \A j, p \in 1..Len(header) :
                header'[p] = header[j] => data'[r][p] = data[r][j]

\* C5: for in-range from and to, moveColumn(from, to) moves the header item
\* at from to position to and applies the same move to every row, so every
\* header keeps the cell column it was paired with, and header and rows are
\* permutations of their previous contents of unchanged length.
C5_MoveColumnKeepsPairing ==
    [][lastOp' = "moveColumn" =>
         /\ MovePreservesPairing
         /\ \A from, to \in 0..(NCols - 1) :
               ModelMoveColumn(from, to) => header'[to + 1] = header[from + 1]]_vars

\* C5 witness: a column move has changed the column order of a table with
\* several rows
C5_Witness ==
    /\ lastOp = "moveColumn"
    /\ header[1].col # 1
    /\ Len(data) >= 2

\* a column's filter is active when it has a filter term
ActiveFilter(item) == filterCount(item) > 0

\* an active filter accepts a cell whose data contains the term, ignoring case
Accepts(item, cell) ==
    indexOfGE0(toLowerCase(cell.data), toLowerCase(item.filterData))

\* C6: row i is shown if and only if every column with an active filter
\* accepts the row's cell in that column; a row with no active filter is
\* never hidden.
C6_FilterIsConjunctive ==
    \A i \in 0..(Len(data) - 1) :
        rowRendered(header, data, i) <=>
            \A j \in 1..Len(header) :
                ActiveFilter(header[j]) => Accepts(header[j], data[i + 1][j])

\* C6 witness: two filters are active, a row is hidden although one of them
\* accepts it, and another row is shown
C6_Witness ==
    /\ \A j \in 1..Len(header) : ActiveFilter(header[j])
    /\ \E i \in 0..(Len(data) - 1) :
          /\ isRowFiltered(header, data, i)
          /\ \E j \in 1..Len(header) : Accepts(header[j], data[i + 1][j])
    /\ \E i \in 0..(Len(data) - 1) : rowRendered(header, data, i)

\* C7: changing the active filters leaves data, rowsSelected and
\* rowsExpanded unchanged: hidden rows keep their index, their selection and
\* their expansion flag.
C7_FilterKeepsRows ==
    [][\A c \in 0..(NCols - 1), t \in FilterTerms :
         SetFilter(c, t) => UNCHANGED <<data, rowsSelected, rowsExpanded>>]_vars

\* C7 witness: a filter was just set and hides a row that is selected and
\* expanded
C7_Witness ==
    /\ lastOp = "setFilter"
    /\ \E i \in 0..(Len(data) - 1) :
          /\ isRowFiltered(header, data, i)
          /\ rowsSelected[i + 1]
          /\ rowsExpanded[i + 1]

\* C8: expandRow(i, v) sets rowsExpanded[i] to v, leaves every other
\* expansion flag, data (with the children and the flags they own) and
\* rowsSelected unchanged.  The expand button applies the same row-local
\* change (its click also reaches the row's own click handler, which is not
\* part of expandRow).
C8_ExpandRowIsLocal ==
    [][/\ \A i \in -1..MaxRows, v \in BOOLEAN :
            (lastOp' = "expandRow" /\ ModelExpandRow(i, v)) =>
               /\ Len(rowsExpanded') = Len(rowsExpanded)
               /\ InRange(i, Len(rowsExpanded)) => rowsExpanded'[i + 1] = v
               /\ \A k \in 1..Len(rowsExpanded) :
                     k # i + 1 => rowsExpanded'[k] = rowsExpanded[k]
               /\ UNCHANGED <<data, rowsSelected>>
       /\ \A i \in 0..(MaxRows - 1) :
            (rowsExpanded' # rowsExpanded /\ ExpandButtonClick(i)) =>
               /\ rowsExpanded'[i + 1] = ~rowsExpanded[i + 1]
               /\ \A k \in 1..Len(rowsExpanded) :
                     k # i + 1 => rowsExpanded'[k] = rowsExpanded[k]
               /\ UNCHANGED data]_vars

\* C8 witness: a row with an expanded child was collapsed while another row
\* stays expanded
C8_Witness ==
    /\ lastOp = "expandRow"
    /\ \E i, k \in 1..Len(data) :
          /\ ~rowsExpanded[i]
          /\ \E j \in 1..Len(data[i]) :
                /\ Len(data[i][j].expandedData) > 0
                /\ data[i][j].expandedData[1].expanded
          /\ rowsExpanded[k]

\* C10: selectRow(index, value) with index < 0 or index >= data.length is a
\* silent no-op: rowsSelected keeps its length and contents and the count is
\* unchanged.
C10_SelectRowOutOfRange ==
    [][\A i \in -1..MaxRows, v \in BOOLEAN :
         (/\ lastOp' = "selectRowOutOfRange"
          /\ ~InRange(i, Len(data))
          /\ ModelSelectRow(i, v)) =>
            /\ rowsSelected' = rowsSelected
            /\ selectedRowsCount(rowsSelected') = Count]_vars

\* C10 witness: an out-of-range selectRow has acted on a table
\* with a selected and an unselected row
C10_Witness ==
    /\ lastOp = "selectRowOutOfRange"
    /\ Len(data) = 2
    /\ Count = 1

\* the mutation n of a handler and its notification, both with the state s
MutationThenNotification(n, s) ==
    << [ev |-> "mutation", n |-> n, state |-> s],
       [ev |-> "notification", n |-> n, state |-> s] >>

\* C11: change notifications are delivered synchronously and in the order
\* of the mutations that caused them: the k-th notification of a handler is
\* for its k-th mutation, comes before the next mutation, and the state its
\* subscriber reads contains that mutation in full (and no later one).
C11_NotificationsInOrder ==
    [][observed = "notifications" =>
         /\ Len(received') % 2 = 0
         /\ \A k \in 1..(Len(received') \div 2) :
               /\ received'[2 * k - 1].ev = "mutation"
               /\ received'[2 * k - 1].n = k
               /\ received'[2 * k].ev = "notification"
               /\ received'[2 * k].n = k
               /\ received'[2 * k].state = received'[2 * k - 1].state
         /\ \A n \in 0..MaxRows, v \in Variants :
               SetData(n, v) =>
                  received' = MutationThenNotification(1,
                                 [rs |-> rowsSelected', rows |-> Len(data')])
         /\ \A i \in 0..(MaxRows - 1), b \in BOOLEAN :
               (InRange(i, Len(rowsSelected)) /\ ModelSelectRow(i, b)) =>
                  received' = MutationThenNotification(1,
                                 [rs |-> rowsSelected', rows |-> Len(data)])
         /\ \A i \in 0..(MaxRows - 1) :
               (~showSelectionColumn /\ enableSingleSelect /\ RowClick(i)) =>
                  /\ Len(received') = 2 * (Len(rowsSelected) + 1)
                  /\ \A k \in 1..Len(rowsSelected) :
                        received'[2 * k].state =
                           [rs   |-> [j \in 1..Len(rowsSelected) |->
                                         IF j <= k THEN FALSE ELSE rowsSelected[j]],
                            rows |-> Len(data)]
                  /\ received'[Len(received')].state =
                        [rs |-> rowsSelected', rows |-> Len(data)]]_vars

\* C11 witness: a click on a row of a single-select table with several
\* selected rows has made several mutations, each with its notification
C11_Witness ==
    /\ observed = "notifications"
    /\ Len(received) = 2 * (MaxRows + 1)
    /\ received[1].state.rs # received[3].state.rs
    /\ received[Len(received)].state.rs = rowsSelected

\* C12: a click on a column's sort button only emits the sort event with
\* that column's index: data (row order included), the headers with their
\* sorted and descending flags, and the selection and expansion state are
\* unchanged; the order of the rows changes only when data is replaced.
C12_SortClickOnlyEmits ==
    [][/\ \A c \in 0..(NCols - 1) :
            (lastOp' = "sort" /\ SortClick(c)) =>
               /\ sortEmitted' = c
               /\ UNCHANGED <<data, header, rowsSelected, rowsExpanded,
                              selectAllCheckbox, selectAllCheckboxSomeSelected>>
       /\ (\E r \in 1..Len(data) :
               r > Len(data') \/ {data'[r][j] : j \in 1..NCols} # {data[r][j] : j \in 1..NCols})
           => \E n \in 0..MaxRows, v \in Variants : SetData(n, v)]_vars

\* C12 witness: the sort button was clicked on a table with several rows,
\* a selected row and an expanded row
C12_Witness ==
    /\ lastOp = "sort"
    /\ sortEmitted = NCols - 1
    /\ Len(data) >= 2
    /\ \E i, k \in 1..Len(data) : rowsSelected[i] /\ rowsExpanded[k]

\* the rows of a page as the data setter stores them
StoredPage(page) ==
    [r \in 1..PageRows(page) |->
        [j \in 1..NCols |-> TableData(PageRows(page), page)[r][header[j].col]]]

\* C13: with several page fetches outstanding, the model accepts every
\* answer in the order of arrival: data and currentPage are those written by
\* the answer that arrived last, also when it answers an older request than
\* one already answered.
C13_LastCompletionWins ==
    [][\A id \in 1..MaxRequests :
         (lastOp' = "completePage" /\ id \in pending /\ CompletePage(id)) =>
            /\ currentPage' = requests[id]
            /\ data' = StoredPage(requests[id])
            /\ Len(rowsSelected') = PageRows(requests[id])]_vars

\* C13 witness: the answer to the first request arrived after the answer
\* to the second request, for another page, and the table shows it
C13_Witness ==
    /\ lastOp = "completePage"
    /\ completions = <<2, 1>>
    /\ requests[1] # requests[2]
    /\ currentPage = requests[1]
    /\ data = StoredPage(requests[1])

\* C14: hasExpandableRows() is true exactly when isRowExpandable(i) is true
\* for some index i; isRowExpandable(i) is true exactly when row i exists
\* and one of its cells has a non-empty children sequence; for an index out
\* of range it is false.
C14_ExpandableRows ==
    /\ hasExpandableRows(data) <=>
           \E i \in -1..MaxRows : isRowExpandable(data, i)
    /\ \A i \in -1..MaxRows :
           isRowExpandable(data, i) <=>
              /\ 0 <= i
              /\ i < Len(data)
              /\ \E j \in 1..NCols : data[i + 1][j].expandedData # <<>>

\* C14 witness: after a column move, one row of the table has children (in
\* its second cell) and another row has none
C14_Witness ==
    /\ Len(data) >= 2
    /\ header[1].col # 1
    /\ \E i, k \in 0..(Len(data) - 1) :
          /\ data[i + 1][2].expandedData # <<>>
          /\ isRowExpandable(data, i)
          /\ ~isRowExpandable(data, k)
    /\ hasExpandableRows(data)

\* C15: with cacheLevel "simple", doSpriteRequest(name) is called at most
\* once for each sprite name, whichever IconService instance is asked, and
\* every getSprite(name) returns the one cached observable; with cacheLevel
\* "none", every getSprite(name) calls doSpriteRequest(name) again, returns
\* its new observable, and leaves the cache as it is.
C15_SpriteCache ==
    [][\A service \in IconServices, name \in SpriteNames :
         GetSprite(service, name) =>
            IF cacheLevel = "simple"
            THEN /\ \A n \in SpriteNames : cachedRequests'[n] <= 1
                 /\ spriteCache'[name] # 0
                 /\ lastSprite'.observable = spriteCache'[name]
                 /\ spriteCache[name] # 0 =>
                       /\ spriteCache' = spriteCache
                       /\ spriteRequests' = spriteRequests
                 /\ spriteCache[name] = 0 =>
                       spriteRequests'[name] = spriteRequests[name] + 1
            ELSE /\ spriteRequests'[name] = spriteRequests[name] + 1
                 /\ lastSprite'.observable = spriteRequests'[name]
                 /\ lastSprite'.observable # spriteCache[name]
                 /\ spriteCache' = spriteCache]_vars

\* C15 witness: the second service was asked with cacheLevel "simple" for
\* a sprite that was requested before, with and without the cache, and
\* returned the cached observable
C15_Witness ==
    /\ lastSprite.level = "simple"
    /\ lastSprite.service = 2
    /\ lastSprite.name \in SpriteNames
    /\ spriteRequests[lastSprite.name] >= 2
    /\ cachedRequests[lastSprite.name] = 1
    /\ spriteCache[lastSprite.name] = lastSprite.observable
    /\ lastSprite.observable # 0

\* C16: toggle alternates the dialog: called with isOpen false it opens the
\* dialog, called with isOpen true it closes it; after n consecutive toggles
\* from the closed state isOpen is true exactly when n is odd.
C16_ToggleAlternates ==
    [][dialogOp' = "toggle" =>
         \A v \in CallerViews, a \in BOOLEAN :
            ToggleDialog(v, a) =>
               /\ isOpen' = ~isOpen
               /\ toggles' >= 0 => (isOpen' <=> toggles' % 2 = 1)]_vars

\* C16 witness: the dialog is open after three consecutive toggles
C16_Witness ==
    /\ dialogOp = "toggle"
    /\ toggles = 3
    /\ isOpen

\* C17: in every state reached by open, close, toggle and the dialog's own
\* close events, isOpen is true exactly when dialogRef refers to a created
\* dialog component.
C17_IsOpenIffDialogRef ==
    isOpen <=> (dialogRef # 0 /\ dialogRef \in Attached(views))

\* C17 witness: a dialog that was opened has closed itself
C17_Witness ==
    /\ dialogOp = "closeEvent"
    /\ ~isOpen
    /\ dialogRef = 0

\* C18: open called while a dialog is open creates no component and changes
\* no state; at most one dialog component of the service exists at any
\* time; once the dialog is closed no component of the service is left in
\* any view container.
C18_SingleComponent ==
    [][/\ dialogOp' = "openWhileOpen" =>
             UNCHANGED <<isOpen, dialogRef, dialogConfig, subscribedView, views, isClosedLast>>
       /\ Cardinality(Attached(views')) <= 1
       /\ ~isOpen' => Attached(views') = {}]_vars

\* C19: isClosed emits true whenever the dialog goes from open to closed
\* and false whenever it goes from closed to open, so the value it emitted
\* last is the negation of isOpen.
C19_IsClosedTracksIsOpen ==
    /\ isOpen => isClosedLast = "false"
    /\ ~isOpen => isClosedLast \in {"none", "true"}

\* t occurs in s when the case of the letters is ignored
ContainsIgnoringCase(s, t) ==
    \E k \in 0..(Len(s) - Len(t)) :
        \A m \in 1..Len(t) : lowerChar(s[k + m]) = lowerChar(t[m])

\* the positions of the items whose content contains the query
Matching(its, query) ==
    {k \in 1..Len(its) : ContainsIgnoringCase(its[k].content, query)}

\* C20: after any updateList and filterBy calls every element of
\* displayItems is an element of items; filterBy(q) with a non-empty q
\* leaves in displayItems exactly the items whose content contains q,
\* ignoring case, in their order in items; filterBy with an empty query
\* leaves all items.
C20_DisplayItems ==
    [][/\ \A k \in 1..Len(displayItems') :
             \E j \in 1..Len(items') : displayItems'[k] = items'[j]
       /\ \A q \in Queries :
             FilterBy(q) =>
                IF Len(q) = 0
                THEN displayItems' = items
                ELSE /\ Len(displayItems') = Cardinality(Matching(items, q))
                     /\ \A k \in Matching(items, q) :
                           displayItems'[Cardinality({j \in Matching(items, q) : j <= k})]
                              = items[k]]_vars

\* C20 witness: the list was updated more than once, and a query in another
\* case than the content leaves the second of two items displayed
C20_Witness ==
    /\ copies = 0
    /\ Len(items) = 2
    /\ items[1].content = <<"b">>
    /\ items[2].content = <<"A", "b">>
    /\ displayItems = << items[2] >>

\* the items of the dropdown list that are selected
SelectedItems(its) == { j \in 1..Len(its) : its[j].selected }

\* C21: a click on an enabled item toggles that item; in a list of type
\* "single" every other item is unselected afterwards, so that at most one
\* item is selected; in a list of type "multi" no other item changes
C21_DoClickSelection ==
    [][\A k \in 1..Len(displayItems) :
          (~displayItems[k].disabled /\ DoClick(k)) =>
              /\ Len(items') = Len(items)
              /\ \A j \in 1..Len(items) :
                    /\ items'[j].id = items[j].id
                    /\ items[j].id = displayItems[k].id =>
                          items'[j].selected = ~items[j].selected
                    /\ (items[j].id # displayItems[k].id /\ listType = "single") =>
                          ~items'[j].selected
                    /\ (items[j].id # displayItems[k].id /\ listType = "multi") =>
                          items'[j] = items[j]
              /\ listType = "single" => Cardinality(SelectedItems(items')) <= 1
              /\ \A j \in 1..Len(displayItems') :
                    \E h \in 1..Len(items') : displayItems'[j] = items'[h]]_vars

\* a click in a list of type "single" selected an item of a list of several
\* items and left it the one selected item
C21_Witness ==
    /\ listType = "single"
    /\ listSelect.kind = "item"
    /\ Len(items) = MaxItems
    /\ Cardinality(SelectedItems(items)) = 1
    /\ listIndex + 1 \in SelectedItems(items)
\* Python's range(start, stop, step): start, start + step, ... as long as the
\* value lies before stop in the direction of step
pythonRange(start, stop, step) ==
    LET before(v) == IF step > 0 THEN v < stop ELSE v > stop
        n == Cardinality({ i \in 0..(2 * MaxRange) : before(start + i * step) })
    IN  [i \in 1..n |-> start + (i - 1) * step]

\* C22: range(stop, start, step) raises no error and returns the sequence
\* of Python's range(start, stop, step), the empty sequence when no value
\* lies between start and stop in the direction of step
C22_RangeIsPythonRange ==
    rangeCall.called =>
        /\ rangeCall.result.error = "none"
        /\ rangeCall.result.value =
              pythonRange(rangeCall.start, rangeCall.stop, rangeCall.step)
\* the promise getIcon returned for the icon is pending
Pending(icon) == promises[icon].state = "pending"

\* the promise getIcon returned for the icon is resolved
Resolved(icon) == promises[icon].state = "resolved"

\* what getIcon and its promise do at each step, whichever emissions
\* resolve: the promise of getIcon is resolved at once when the symbol is in
\* the document and pending otherwise; a pending promise is resolved by
\* emissions of spriteLoaded alone; a resolved promise stays resolved, with
\* the clone of the symbol's content it was first resolved with
PromiseSteps ==
    \A icon \in Icons :
        /\ GetIcon(icon) =>
              promises'[icon].state =
                  IF icon \in Document(sprites) THEN "resolved" ELSE "pending"
        /\ (Pending(icon) /\ Resolved(icon)') =>
              \E name \in SpriteNames : SpriteLoadedTimer(name)
        /\ Resolved(icon) =>
              /\ Resolved(icon)'
              /\ promises'[icon].value = promises[icon].value
        /\ Resolved(icon)' => promises'[icon].value = clone(icon)

\* a pending promise is resolved once a sprite with its symbol is in the
\* document and its timer has emitted spriteLoaded
ResolvedOnceLoaded ==
    \A icon \in Icons, name \in SpriteNames :
        (icon \in Symbols(name) /\ Pending(icon) /\ sprites[name] = "injected")
            ~> Resolved(icon)

\* C23 (amended): the promise of getIcon is resolved at once when the symbol
\* is in the document; otherwise it is resolved, once and with a clone of
\* the symbol's content, after a sprite with the symbol was put into the
\* document and spriteLoaded was emitted; an emission of spriteLoaded while
\* the symbol is not in the document does not resolve it, and an emission
\* while it is in the document does, whichever sprite the emission is for
C23_GetIconResolves ==
    /\ [][/\ PromiseSteps
           /\ \A name \in SpriteNames, icon \in Icons :
                 (SpriteLoadedTimer(name) /\ Pending(icon)) =>
                     (Resolved(icon)' <=> icon \in Document(sprites))]_vars
    /\ ResolvedOnceLoaded

\* C23 (as stated): the same, but an emission of spriteLoaded for a sprite
\* that does not contain the symbol never resolves the promise
C23_OtherSpritesNeverResolve ==
    [][/\ PromiseSteps
       /\ \A name \in SpriteNames, icon \in Icons :
             (SpriteLoadedTimer(name) /\ Pending(icon) /\ icon \notin Symbols(name)) =>
                 Pending(icon)']_vars

\* a promise that had to wait is resolved, the resolver was called again
\* afterwards, and the promise of an icon of no sprite is still pending
C23_Witness ==
    /\ promises["add_16"].waited
    /\ Resolved("add_16")
    /\ promises["add_16"].resolveCalls = 2
    /\ Pending("ghost_16")
    /\ \A name \in SpriteNames : sprites[name] = "loaded"
\* the symbols no other sprite than this one contains
OnlyIn(name) == Symbols(name) \ UNION { Symbols(n) : n \in SpriteNames \ {name} }

\* C29: a failed sprite request is logged and ends in an error, never in a
\* value: the Sprite puts nothing into the document and never emits
\* spriteLoaded, no promise changes, and the promise of an icon that this
\* sprite alone contains is never resolved
C29_FailedSpriteRequest ==
    /\ [](\A name \in SpriteNames :
             sprites[name] = "failed" =>
                 /\ name \in logged
                 /\ OnlyIn(name) \cap Document(sprites) = {}
                 /\ \A icon \in OnlyIn(name) : ~Resolved(icon))
    /\ [][\A name \in SpriteNames :
             /\ SpriteRequestFails(name) =>
                   /\ name \in logged'
                   /\ sprites'[name] = "failed"
                   /\ Document(sprites') = Document(sprites)
                   /\ promises' = promises
             /\ sprites[name] = "failed" => sprites'[name] = "failed"]_vars

\* the request of one sprite failed while an icon of that sprite alone was
\* waited for; the other sprite was loaded and resolved the icon they share
C29_Witness ==
    /\ sprites["core"] = "failed"
    /\ promises["add_16"].waited /\ Pending("add_16")
    /\ sprites["extra"] = "loaded"
    /\ promises["both_16"].waited /\ Resolved("both_16")
\* C24: every scroll event either emits scrollLoad with the model and
\* leaves model.isEnd as it is, when the distance from the bottom is at most
\* scrollLoadDistance, or emits nothing and sets model.isEnd to false
C24_ScrollLoad ==
    [][\A scrollHeight \in ClientHeight..(ClientHeight + MaxScroll), scrollTop \in 0..MaxScroll :
          Scroll(scrollHeight, scrollTop) =>
              IF scrollHeight - ClientHeight - scrollTop <= scrollLoadDistance
              THEN lastScroll'.scrollLoad = <<held>> /\ isEnd' = isEnd
              ELSE lastScroll'.scrollLoad = <<>> /\ isEnd' = FALSE]_vars

\* a scroll event at exactly scrollLoadDistance from the bottom emitted
\* scrollLoad and left model.isEnd true
C24_Witness ==
    /\ lastScroll.seen
    /\ scrollLoadDistance > 0
    /\ lastScroll.scrollHeight - ClientHeight - lastScroll.scrollTop = scrollLoadDistance
    /\ lastScroll.scrollLoad = <<held>>
    /\ isEnd
\* C25: a change of the header checkbox emits exactly one event, selectAll
\* when the checkbox is checked and was not indeterminate and deselectAll
\* otherwise; afterwards the checkbox is not indeterminate and every entry
\* of rowsSelected equals selectAllCheckbox
C25_SelectAllEvent ==
    [][\A checked \in BOOLEAN :
          SelectAllCheckboxClick(checked) =>
              /\ Len(tableEvents') = 1
              /\ tableEvents'[1].name =
                    IF checked /\ ~selectAllCheckboxSomeSelected
                    THEN "selectAll" ELSE "deselectAll"
              /\ ~selectAllCheckboxSomeSelected'
              /\ Len(rowsSelected') = Len(rowsSelected)
              /\ \A k \in 1..Len(rowsSelected') : rowsSelected'[k] = selectAllCheckbox']_vars

\* the header checkbox was checked while indeterminate: deselectAll was
\* emitted and every row is deselected
C25_Witness ==
    /\ tableEvents = <<TableEvent("deselectAll", -1)>>
    /\ Len(data) = MaxRows
    /\ ~selectAllCheckbox
    /\ Count = 0
    /\ showSelectionColumn

\* C26: a change of the checkbox of row i emits exactly one event,
\* selectRow with index i when rowsSelected[i] is true after the change and
\* deselectRow with index i otherwise; rowsSelected is as the checkbox
\* wrote it, the handler changes no entry
C26_RowCheckboxEvent ==
    [][\A i \in 0..(MaxRows - 1) :
          RowCheckboxClick(i) =>
              /\ tableEvents' =
                    <<TableEvent(IF rowsSelected'[i + 1] THEN "selectRow" ELSE "deselectRow", i)>>
              /\ rowsSelected' = [rowsSelected EXCEPT ![i + 1] = ~rowsSelected[i + 1]]]_vars

\* the last row was deselected while the first row stays selected
C26_Witness ==
    /\ tableEvents = <<TableEvent("deselectRow", MaxRows - 1)>>
    /\ Len(rowsSelected) = MaxRows
    /\ rowsSelected[1] /\ ~rowsSelected[MaxRows]
    /\ selectAllCheckboxSomeSelected
\* C27: the arguments of every model.moveColumn(from, to) that columnDrop
\* issues are indices of columns: 0 <= from < header.length and
\* 0 <= to < header.length
C27_ColumnDropInRange ==
    moveCall.called =>
        /\ InRange(moveCall.from, Len(header))
        /\ InRange(moveCall.to, Len(header))
\* the table selects single rows by row clicks
SingleSelect == ~showSelectionColumn /\ enableSingleSelect

\* C28: in single-select mode at most one row is selected after any
\* sequence of row clicks, and after a click on row i exactly row i is
\* selected; in every other mode a row click changes neither rowsSelected
\* nor the header checkbox, notifies nobody and emits no event
C28_SingleSelect ==
    /\ [](SingleSelect => Count <= 1)
    /\ [][\A i \in 0..(MaxRows - 1) :
             RowClick(i) =>
                 IF SingleSelect
                 THEN rowsSelected' = [k \in 1..Len(rowsSelected) |-> k = i + 1]
                 ELSE /\ rowsSelected' = rowsSelected
                      /\ CheckboxState' = CheckboxState
                      /\ received' = <<>>
                      /\ tableEvents' = <<>>]_vars

\* in single-select mode the last row was clicked while another row was
\* selected: every row was deselected in turn, then the clicked row selected
C28_Witness ==
    /\ SingleSelect
    /\ lastOp = "rowClick"
    /\ Len(rowsSelected) = MaxRows
    /\ rowsSelected = [k \in 1..MaxRows |-> k = MaxRows]
    /\ Len(received) = 2 * (MaxRows + 1)
    /\ received[1].state.rs # received[2 * MaxRows].state.rs
\* C30: after the model of the table was replaced, the notifications of the
\* old model no longer reach the header checkbox, each notification of the
\* new model is handled once, and the other holders of the old model can
\* still mutate it without an error being raised. The formula states the
\* last part: no mutation of a model raises an error
C30_OldModelStillMutable ==
    raised = "none"
====
